---- MODULE Spec2Model ----
(***************************************************************************)
(* xbit2bin (src/xbin2bit.c): strip the header of a Xilinx bitstream,      *)
(* byte-swap its 32-bit words when the bus-width words say so, and copy    *)
(* the result to the output.                                               *)
(*                                                                         *)
(* Buffers are functions over C's 0-based indices; the input file and the  *)
(* bytes written are sequences (In(i) is the file's byte at offset i).     *)
(* A uint32_t is the tuple of its four bytes, most significant first: its  *)
(* image in memory depends on the host's byte order (littleEndian).        *)
(***************************************************************************)
EXTENDS Integers, Sequences, FiniteSets

VARIABLES
    pc,            \* position in main / xbit2bin
    littleEndian,  \* byte order of the host the program was built for
    input,         \* contents of the file behind fdin
    pos,           \* file offset of fdin
    fdin, fdout,   \* "none", "open", "closed"
    out,           \* bytes written to fdout by this run, in order
    hdr,           \* uint8_t hdr[MAXHDR]
    datbuf,        \* char datbuf[64 * 1024]
    strip, do_swap, n,  \* locals of xbit2bin
    ret,           \* <<value returned by xbit2bin>>, <<>> before it returns
    status,        \* <<exit status of the process>>, <<>> while it runs
    stderr,        \* last message printed on stderr
    wrote,         \* write() has been called on fdout
    fault,         \* the environment failed or cut short a transfer
    hdrExt, datExt \* one past the highest offset accessed in hdr / datbuf

vars == <<pc, littleEndian, input, pos, fdin, fdout, out, hdr, datbuf, strip,
          do_swap, n, ret, status, stderr, wrote, fault, hdrExt, datExt>>

----------------------------------------------------------------------------
(* Program constants *)

MAXHDR == 256

MinDummies == 32

WordSize == 4

\* the chunk buffer holds DatBufWords 32-bit words (16384 in the source)
DatBufWords == 2

DatBufSize == WordSize * DatBufWords

buswords_noswap == << <<0, 0, 0, 187>>, <<17, 34, 0, 68>> >>

buswords_swap == << <<187, 0, 0, 0>>, <<68, 0, 34, 17>> >>

\* sizeof(buswords_swap) = sizeof(buswords_noswap)
BuswordsSize == Len(buswords_swap) * WordSize

Min(a, b) == IF a < b THEN a ELSE b

Max(a, b) == IF a < b THEN b ELSE a

----------------------------------------------------------------------------
(* Words in memory *)

\* the byte at address offset off (0..3) of the stored word w
StoreByte(w, off, le) == IF le THEN w[WordSize - off] ELSE w[off + 1]

\* the word held by the four bytes of buf from offset a
LoadWord(buf, a, le) ==
    IF le THEN <<buf[a + 3], buf[a + 2], buf[a + 1], buf[a]>>
          ELSE <<buf[a], buf[a + 1], buf[a + 2], buf[a + 3]>>

bswap32(w) == <<w[4], w[3], w[2], w[1]>>

\* the memory image of an array of words, as a sequence of bytes
Image(words, le) ==
    [j \in 1..(Len(words) * WordSize) |->
        StoreByte(words[((j - 1) \div WordSize) + 1], (j - 1) % WordSize, le)]

\* memcmp over the first word only
memcmp_eq_first_word(buf, a, words, le) ==
    \A j \in 1..WordSize : buf[a + j - 1] = Image(words, le)[j]

\* memcmp(&buf[a], words, sizeof(words)) == 0
memcmp_eq(buf, a, words, le) ==
    \A j \in 1..(Len(words) * WordSize) : buf[a + j - 1] = Image(words, le)[j]

----------------------------------------------------------------------------
(* analyze_xilinx_header *)

\* one pass through the body of the for loop at index i; s.left is set once
\* the loop has been left by break
ScanStep(h, i, s) ==
    IF s.left THEN s
    ELSE IF h[i] = 255 THEN [i |-> i + 1, dummies |-> s.dummies + 1, left |-> FALSE]
    ELSE IF s.dummies >= MinDummies THEN [i |-> i, dummies |-> s.dummies, left |-> TRUE]
    ELSE [i |-> i + 1, dummies |-> 0, left |-> FALSE]

RECURSIVE ScanRange(_, _, _, _)
\* the passes at indices lo..hi-1 in order, from loop state s
ScanRange(h, lo, hi, s) ==
    IF hi <= lo THEN s
    ELSE IF hi = lo + 1 THEN ScanStep(h, lo, s)
    ELSE LET mid == (lo + hi) \div 2
             first == ScanRange(h, lo, mid, s)
         IN  IF first.left THEN first ELSE ScanRange(h, mid, hi, first)

\* the for loop: i and dummies when it is left
ScanDummies(h) ==
    ScanRange(h, 0, MAXHDR - BuswordsSize, [i |-> 0, dummies |-> 0, left |-> FALSE])

\* analyze_xilinx_header with the check after the loop off by one
analyze_xilinx_header_off_by_one(h, le) ==
    LET s == ScanDummies(h)
        i == s.i
        dummies == s.dummies
    IN  IF dummies < MinDummies - 1 THEN [ret |-> -1, do_swap |-> FALSE]
        ELSE IF memcmp_eq(h, i, buswords_noswap, le)
             THEN [ret |-> i - MinDummies, do_swap |-> FALSE]
        ELSE IF memcmp_eq(h, i, buswords_swap, le)
             THEN [ret |-> i - MinDummies, do_swap |-> TRUE]
        ELSE [ret |-> -1, do_swap |-> FALSE]

analyze_xilinx_header(h, le) ==
    LET s == ScanDummies(h)
        i == s.i
        dummies == s.dummies
    IN  IF dummies < MinDummies THEN [ret |-> -1, do_swap |-> FALSE]
        ELSE IF memcmp_eq(h, i, buswords_noswap, le)
             THEN [ret |-> i - MinDummies, do_swap |-> FALSE]
        ELSE IF memcmp_eq(h, i, buswords_swap, le)
             THEN [ret |-> i - MinDummies, do_swap |-> TRUE]
        ELSE [ret |-> -1, do_swap |-> FALSE]

----------------------------------------------------------------------------
(* xbit2bin_bswap *)

\* the loop bound taken as i * sizeof(uint32_t) <= n
BswapWords_one_more(len) == (len \div WordSize) + 1

\* number of words the loop visits: every i with i * sizeof(uint32_t) < n
BswapWords(len) == (len + WordSize - 1) \div WordSize

\* one past the last byte the loop reads and writes
BswapExtent(len) == WordSize * BswapWords(len)

xbit2bin_bswap(buf, len, le) ==
    [j \in DOMAIN buf |->
        IF j < BswapExtent(len) /\ (WordSize * (j \div WordSize) + 3) \in DOMAIN buf
        THEN StoreByte(bswap32(LoadWord(buf, WordSize * (j \div WordSize), le)),
                       j % WordSize, le)
        ELSE buf[j]]

----------------------------------------------------------------------------
(* The environment: the files the program may be given, read() and write() *)

\* longest body tried: one byte more than the chunk buffer holds
MaxBody == 9

\* values an uninitialised stack byte may hold
Garbage == {0, 165}

Filler(i) == i % 251

Base(len) == [j \in 1..len |-> Filler(j - 1)]

\* f with bytes laid over it from offset at (clipped to f's length)
Patch(f, at, bytes) ==
    [j \in 1..Len(f) |->
        IF at < j /\ j <= at + Len(bytes) THEN bytes[j - at] ELSE f[j]]

Dummies(r) == [j \in 1..r |-> 255]

MarkerA == Image(buswords_noswap, TRUE)

MarkerB == Image(buswords_swap, TRUE)

BadTail == [MarkerB EXCEPT ![BuswordsSize] = 69]

BadMix == SubSeq(MarkerA, 1, WordSize) \o SubSeq(MarkerB, WordSize + 1, BuswordsSize)

Markers == {MarkerA, MarkerB, BadTail, BadMix}

\* a file of len bytes: r dummy bytes ending right before offset p, mk at p
HeaderAt(len, p, r, mk) == Patch(Patch(Base(len), p - r, Dummies(r)), p, mk)

StopPositions == {32, 33, 34, 35, 72, 247, 248, 249}

RunLens == {31, 32, 33, 40}

\* every stop position, run length and marker, with no body or one word of it
HeaderFiles ==
    {HeaderAt(MAXHDR + b, p, r, mk) :
        <<p, r, mk, b>> \in {t \in StopPositions \X RunLens \X Markers \X {0, WordSize} :
                                t[2] <= t[1]}}

\* valid headers (strip offsets 40 and 2) with every body length
BodyFiles ==
    {HeaderAt(MAXHDR + b, p, MinDummies, mk) :
        <<p, mk, b>> \in {72, 34} \X {MarkerA, MarkerB} \X (0..MaxBody)}

\* an earlier run of rd dummy bytes from offset 40, followed by mk2, before a
\* valid run and marker at offset 150
DecoyFiles ==
    {Patch(Patch(HeaderAt(MAXHDR + b, 150, MinDummies, mk), 40, Dummies(rd)), 40 + rd, mk2) :
        <<rd, mk2, mk, b>> \in {10, 31, 32, 40} \X {BadTail, MarkerA} \X {MarkerA, MarkerB} \X {0, 4}}

OddFiles ==
    {Base(len) : len \in {0, 1, MAXHDR - 1, MAXHDR, MAXHDR + 4}}
    \cup {Dummies(MAXHDR), Patch(Base(MAXHDR), 216, Dummies(40)),
          HeaderAt(MAXHDR - 1, 72, MinDummies, MarkerA)}

Files == HeaderFiles \cup BodyFiles \cup DecoyFiles \cup OddFiles

\* the byte of the input file at offset i
In(i) == input[i + 1]

Avail == Len(input) - pos

\* what read(fin, buf, count) may return: -1, 0 at end of file, or the number
\* of bytes transferred: all m that can be, or fewer (every shorter length for
\* a transfer that fits the chunk buffer, one byte fewer for a longer one)
ReadResults(count) ==
    LET m == Min(count, Avail)
    IN  {-1} \cup (IF Avail = 0 THEN {0}
                   ELSE {k \in 1..m : k = m \/ m <= DatBufSize \/ k = m - 1})

\* buf after read() stored r bytes from offset off
ReadInto(buf, off, r) ==
    [j \in DOMAIN buf |-> IF off <= j /\ j < off + r THEN In(pos + j - off) ELSE buf[j]]

\* a read() that returned r for count bytes was an error or a cut transfer
ReadFault(count, r) == r < Min(count, Avail)

\* the first len bytes of buf, as written
Bytes(buf, len) == [j \in 1..len |-> buf[j - 1]]

\* what write(fout, buf, len) may return: len, or less (-1 included)
WriteResults(len) == {len, len - 1, -1}

----------------------------------------------------------------------------
(* main and xbit2bin, one action per step *)

Init ==
    /\ pc = "main"
    /\ littleEndian \in BOOLEAN
    /\ input = <<>>
    /\ pos = 0
    /\ fdin = "none"
    /\ fdout = "none"
    /\ out = <<>>
    /\ hdr = <<>>
    /\ datbuf = <<>>
    /\ strip = 0
    /\ do_swap = FALSE
    /\ n = 0
    /\ ret = <<>>
    /\ status = <<>>
    /\ stderr = ""
    /\ wrote = FALSE
    /\ fault = FALSE
    /\ hdrExt = 0
    /\ datExt = 0

\* exit(1) after a message
Exit1(msg) ==
    /\ stderr' = msg
    /\ status' = <<1>>
    /\ pc' = "exit"

\* return (-1) from xbit2bin after a message
Fail(msg) ==
    /\ stderr' = msg
    /\ ret' = <<-1>>
    /\ pc' = "returned"

MainArgs ==
    /\ pc = "main"
    /\ \E argc \in 1..3 :
          IF argc < 2 THEN Exit1("Usage")
          ELSE /\ pc' = "open_in"
               /\ UNCHANGED <<stderr, status>>
    /\ UNCHANGED <<littleEndian, input, pos, fdin, fdout, out, hdr, datbuf, strip,
                   do_swap, n, ret, wrote, fault, hdrExt, datExt>>

OpenIn ==
    /\ pc = "open_in"
    /\ \/ /\ Exit1("Trouble opening for read")
          /\ UNCHANGED <<input, fdin>>
       \/ /\ \E f \in Files : input' = f
          /\ fdin' = "open"
          /\ pc' = "open_out"
          /\ UNCHANGED <<stderr, status>>
    /\ UNCHANGED <<littleEndian, pos, fdout, out, hdr, datbuf, strip,
                   do_swap, n, ret, wrote, fault, hdrExt, datExt>>

OpenOut ==
    /\ pc = "open_out"
    /\ \/ /\ Exit1("Trouble opening for write")
          /\ UNCHANGED fdout
       \/ /\ fdout' = "open"
          /\ pc' = "call"
          /\ UNCHANGED <<stderr, status>>
    /\ UNCHANGED <<littleEndian, input, pos, fdin, out, hdr, datbuf, strip,
                   do_swap, n, ret, wrote, fault, hdrExt, datExt>>

\* entering xbit2bin: hdr and datbuf are on the stack, not initialised
CallXbit2bin ==
    /\ pc = "call"
    /\ \E g \in Garbage :
          /\ hdr' = [j \in 0..(MAXHDR - 1) |-> g]
          /\ datbuf' = [j \in 0..(DatBufSize - 1) |-> g]
    /\ pc' = "read_hdr"
    /\ UNCHANGED <<littleEndian, input, pos, fdin, fdout, out, strip, do_swap, n,
                   ret, status, stderr, wrote, fault, hdrExt, datExt>>

\* ReadHeader failing only when read() returns nothing
ReadHeader_accepts_short ==
    /\ pc = "read_hdr"
    /\ \E r \in ReadResults(MAXHDR) :
          /\ hdr' = ReadInto(hdr, 0, r)
          /\ pos' = pos + Max(r, 0)
          /\ hdrExt' = Max(hdrExt, Max(r, 0))
          /\ fault' = (fault \/ ReadFault(MAXHDR, r))
          /\ IF r <= 0 THEN Fail("Trouble reading bitstream header.")
             ELSE /\ pc' = "analyze"
                  /\ UNCHANGED <<stderr, ret>>
    /\ UNCHANGED <<littleEndian, input, fdin, fdout, out, datbuf, strip, do_swap, n,
                   status, wrote, datExt>>

ReadHeader ==
    /\ pc = "read_hdr"
    /\ \E r \in ReadResults(MAXHDR) :
          /\ hdr' = ReadInto(hdr, 0, r)
          /\ pos' = pos + Max(r, 0)
          /\ hdrExt' = Max(hdrExt, Max(r, 0))
          /\ fault' = (fault \/ ReadFault(MAXHDR, r))
          /\ IF r # MAXHDR THEN Fail("Trouble reading bitstream header.")
             ELSE /\ pc' = "analyze"
                  /\ UNCHANGED <<stderr, ret>>
    /\ UNCHANGED <<littleEndian, input, fdin, fdout, out, datbuf, strip, do_swap, n,
                   status, wrote, datExt>>

AnalyzeHeader ==
    /\ pc = "analyze"
    /\ LET a == analyze_xilinx_header(hdr, littleEndian)
       IN  /\ strip' = a.ret
           /\ do_swap' = a.do_swap
           /\ IF a.ret < 0 THEN Fail("Trouble analizing bitstream header.")
              ELSE /\ pc' = "strip"
                   /\ UNCHANGED <<stderr, ret>>
    /\ UNCHANGED <<littleEndian, input, pos, fdin, fdout, out, hdr, datbuf, n,
                   status, wrote, fault, hdrExt, datExt>>

\* memmove(hdr, hdr + strip, len)
memmove_front(buf, from, len) ==
    [j \in DOMAIN buf |-> IF j < len /\ (j + from) \in DOMAIN buf THEN buf[j + from] ELSE buf[j]]

StripHeader ==
    /\ pc = "strip"
    /\ n' = MAXHDR - strip
    /\ IF strip > 0
       THEN /\ hdr' = memmove_front(hdr, strip, MAXHDR - strip)
            /\ hdrExt' = Max(hdrExt, strip + (MAXHDR - strip))
       ELSE UNCHANGED <<hdr, hdrExt>>
    /\ pc' = "align"
    /\ UNCHANGED <<littleEndian, input, pos, fdin, fdout, out, datbuf, strip, do_swap,
                   ret, status, stderr, wrote, fault, datExt>>

\* 4 - (n & 3)
AlignCount(len) == WordSize - (len % WordSize)

\* AlignHeader without n += 4 - (n & 3)
AlignHeader_no_count ==
    /\ pc = "align"
    /\ IF n % WordSize # 0
       THEN \E r \in ReadResults(AlignCount(n)) :
              /\ hdr' = ReadInto(hdr, n, r)
              /\ pos' = pos + Max(r, 0)
              /\ hdrExt' = Max(hdrExt, n + AlignCount(n))
              /\ fault' = (fault \/ ReadFault(AlignCount(n), r))
              /\ IF r # AlignCount(n)
                 THEN /\ Fail("Trouble reading bitstream data.")
                      /\ UNCHANGED n
                 ELSE /\ n' = n
                      /\ pc' = "swap_hdr"
                      /\ UNCHANGED <<stderr, ret>>
       ELSE /\ pc' = "swap_hdr"
            /\ UNCHANGED <<hdr, pos, hdrExt, fault, n, stderr, ret>>
    /\ UNCHANGED <<littleEndian, input, fdin, fdout, out, datbuf, strip, do_swap,
                   status, wrote, datExt>>

AlignHeader ==
    /\ pc = "align"
    /\ IF n % WordSize # 0
       THEN \E r \in ReadResults(AlignCount(n)) :
              /\ hdr' = ReadInto(hdr, n, r)
              /\ pos' = pos + Max(r, 0)
              /\ hdrExt' = Max(hdrExt, n + AlignCount(n))
              /\ fault' = (fault \/ ReadFault(AlignCount(n), r))
              /\ IF r # AlignCount(n)
                 THEN /\ Fail("Trouble reading bitstream data.")
                      /\ UNCHANGED n
                 ELSE /\ n' = n + AlignCount(n)
                      /\ pc' = "swap_hdr"
                      /\ UNCHANGED <<stderr, ret>>
       ELSE /\ pc' = "swap_hdr"
            /\ UNCHANGED <<hdr, pos, hdrExt, fault, n, stderr, ret>>
    /\ UNCHANGED <<littleEndian, input, fdin, fdout, out, datbuf, strip, do_swap,
                   status, wrote, datExt>>

\* SwapHeader never swapping
SwapHeader_skipped ==
    /\ pc = "swap_hdr"
    /\ pc' = "write_hdr"
    /\ UNCHANGED <<littleEndian, input, pos, fdin, fdout, out, hdr, datbuf, strip,
                   do_swap, n, ret, status, stderr, wrote, fault, hdrExt, datExt>>

SwapHeader ==
    /\ pc = "swap_hdr"
    /\ IF do_swap
       THEN /\ hdr' = xbit2bin_bswap(hdr, n, littleEndian)
            /\ hdrExt' = Max(hdrExt, BswapExtent(n))
       ELSE UNCHANGED <<hdr, hdrExt>>
    /\ pc' = "write_hdr"
    /\ UNCHANGED <<littleEndian, input, pos, fdin, fdout, out, datbuf, strip, do_swap,
                   n, ret, status, stderr, wrote, fault, datExt>>

WriteHeader ==
    /\ pc = "write_hdr"
    /\ \E w \in WriteResults(n) :
          /\ out' = out \o Bytes(hdr, Max(w, 0))
          /\ fault' = (fault \/ w # n)
          /\ IF w # n THEN Fail("Trouble writing binary header.")
             ELSE /\ pc' = "loop_read"
                  /\ UNCHANGED <<stderr, ret>>
    /\ wrote' = TRUE
    /\ hdrExt' = Max(hdrExt, n)
    /\ UNCHANGED <<littleEndian, input, pos, fdin, fdout, hdr, datbuf, strip, do_swap,
                   n, status, datExt>>

\* LoopRead taking end of input (n == 0) for an error
LoopRead_eof_is_error ==
    /\ pc = "loop_read"
    /\ \E r \in ReadResults(DatBufSize) :
          /\ n' = r
          /\ datbuf' = ReadInto(datbuf, 0, r)
          /\ pos' = pos + Max(r, 0)
          /\ datExt' = Max(datExt, Max(r, 0))
          /\ fault' = (fault \/ r < 0)
          /\ IF FALSE
             THEN /\ ret' = <<0>>
                  /\ pc' = "returned"
                  /\ UNCHANGED stderr
             ELSE IF r <= 0 THEN Fail("Trouble reading bitstream data.")
             ELSE /\ pc' = "loop_swap"
                  /\ UNCHANGED <<stderr, ret>>
    /\ UNCHANGED <<littleEndian, input, fdin, fdout, out, hdr, strip, do_swap,
                   status, wrote, hdrExt>>

LoopRead ==
    /\ pc = "loop_read"
    /\ \E r \in ReadResults(DatBufSize) :
          /\ n' = r
          /\ datbuf' = ReadInto(datbuf, 0, r)
          /\ pos' = pos + Max(r, 0)
          /\ datExt' = Max(datExt, Max(r, 0))
          /\ fault' = (fault \/ r < 0)
          /\ IF r = 0
             THEN /\ ret' = <<0>>
                  /\ pc' = "returned"
                  /\ UNCHANGED stderr
             ELSE IF r < 0 THEN Fail("Trouble reading bitstream data.")
             ELSE /\ pc' = "loop_swap"
                  /\ UNCHANGED <<stderr, ret>>
    /\ UNCHANGED <<littleEndian, input, fdin, fdout, out, hdr, strip, do_swap,
                   status, wrote, hdrExt>>

LoopSwap ==
    /\ pc = "loop_swap"
    /\ IF do_swap
       THEN /\ datbuf' = xbit2bin_bswap(datbuf, n, littleEndian)
            /\ datExt' = Max(datExt, BswapExtent(n))
       ELSE UNCHANGED <<datbuf, datExt>>
    /\ pc' = "loop_write"
    /\ UNCHANGED <<littleEndian, input, pos, fdin, fdout, out, hdr, strip, do_swap,
                   n, ret, status, stderr, wrote, fault, hdrExt>>

LoopWrite ==
    /\ pc = "loop_write"
    /\ \E w \in WriteResults(n) :
          /\ out' = out \o Bytes(datbuf, Max(w, 0))
          /\ fault' = (fault \/ w # n)
          /\ IF w # n THEN Fail("Trouble writing bitstream data.")
             ELSE /\ pc' = "loop_read"
                  /\ UNCHANGED <<stderr, ret>>
    /\ wrote' = TRUE
    /\ datExt' = Max(datExt, n)
    /\ UNCHANGED <<littleEndian, input, pos, fdin, fdout, hdr, datbuf, strip, do_swap,
                   n, status, hdrExt>>

\* if (xbit2bin(fdin, fdout) < 0) exit(1);
AfterXbit2bin ==
    /\ pc = "returned"
    /\ IF ret[1] < 0
       THEN /\ status' = <<1>>
            /\ pc' = "exit"
       ELSE /\ pc' = "close_in"
            /\ UNCHANGED status
    /\ UNCHANGED <<littleEndian, input, pos, fdin, fdout, out, hdr, datbuf, strip,
                   do_swap, n, ret, stderr, wrote, fault, hdrExt, datExt>>

CloseIn ==
    /\ pc = "close_in"
    /\ fdin' = "closed"
    /\ pc' = "close_out"
    /\ UNCHANGED <<littleEndian, input, pos, fdout, out, hdr, datbuf, strip, do_swap,
                   n, ret, status, stderr, wrote, fault, hdrExt, datExt>>

\* CloseOut without close(fdout)
CloseOut_skipped ==
    /\ pc = "close_out"
    /\ fdout' = fdout
    /\ pc' = "return"
    /\ UNCHANGED <<littleEndian, input, pos, fdin, out, hdr, datbuf, strip, do_swap,
                   n, ret, status, stderr, wrote, fault, hdrExt, datExt>>

CloseOut ==
    /\ pc = "close_out"
    /\ fdout' = "closed"
    /\ pc' = "return"
    /\ UNCHANGED <<littleEndian, input, pos, fdin, out, hdr, datbuf, strip, do_swap,
                   n, ret, status, stderr, wrote, fault, hdrExt, datExt>>

\* return (0);
MainReturn ==
    /\ pc = "return"
    /\ status' = <<0>>
    /\ pc' = "exit"
    /\ UNCHANGED <<littleEndian, input, pos, fdin, fdout, out, hdr, datbuf, strip,
                   do_swap, n, ret, stderr, wrote, fault, hdrExt, datExt>>

Next ==
    \/ MainArgs
    \/ OpenIn
    \/ OpenOut
    \/ CallXbit2bin
    \/ ReadHeader
    \/ AnalyzeHeader
    \/ StripHeader
    \/ AlignHeader
    \/ SwapHeader
    \/ WriteHeader
    \/ LoopRead
    \/ LoopSwap
    \/ LoopWrite
    \/ AfterXbit2bin
    \/ CloseIn
    \/ CloseOut
    \/ MainReturn

Spec == Init /\ [][Next]_vars

----------------------------------------------------------------------------
(* Properties *)

MsgHeader == "Trouble reading bitstream header."

MsgAnalyze == "Trouble analizing bitstream header."

MsgData == "Trouble reading bitstream data."

\* analyze_xilinx_header has just returned: hdr holds the first MAXHDR bytes
\* of the input, strip and do_swap hold its results
Analysed == pc = "strip" \/ (pc = "returned" /\ stderr = MsgAnalyze)

\* the input's bytes a..b are all dummy bytes
DummyRun(a, b) == \A j \in a..b : In(j) = 255

\* the input holds bytes from offset p on, inside the header
BytesAt(p, bytes) ==
    /\ p + Len(bytes) <= MAXHDR
    /\ \A j \in 1..Len(bytes) : In(p + j - 1) = bytes[j]

NoSwapMarker == Image(buswords_noswap, littleEndian)

SwapMarker == Image(buswords_swap, littleEndian)

ValidMarkerAt(p) == BytesAt(p, NoSwapMarker) \/ BytesAt(p, SwapMarker)

\* p is a position where the scan stops: 32 dummy bytes end right before it,
\* and it holds another byte or is the end of the scanned range
StopAt(p) ==
    /\ p \in 32..248
    /\ DummyRun(p - 32, p - 1)
    /\ (p = 248 \/ In(p) # 255)

FirstStopAt(p) == StopAt(p) /\ \A q \in 32..(p - 1) : ~StopAt(q)

\* C5, first part: a header whose only run of dummy bytes is 31 long and is
\* followed by a valid marker is rejected
C5_Run31Rejected ==
    Analysed =>
        \A s \in 0..(MAXHDR - 39) :
            ( /\ DummyRun(s, s + 30)
              /\ \A j \in 0..(MAXHDR - 1) : In(j) = 255 => j \in s..(s + 30)
              /\ ValidMarkerAt(s + 31) )
            => strip = -1

\* C5, second part: a run of exactly 32 dummy bytes followed by a valid marker
\* at p <= 248, with no earlier stop, is accepted with strip = p - 32 and
\* do_swap set exactly for the swap marker
C5_Run32Accepted ==
    Analysed =>
        \A p \in 32..248 :
            ( /\ FirstStopAt(p)
              /\ (p = 32 \/ In(p - 33) # 255)
              /\ ValidMarkerAt(p) )
            => /\ pc = "strip"
               /\ strip = p - 32
               /\ do_swap = BytesAt(p, SwapMarker)

\* C5, third part: whenever the header is accepted, the 32 bytes before the
\* stop position are all dummy bytes
C5_AcceptedAfterRun ==
    pc = "strip" => strip >= 0 /\ DummyRun(strip, strip + 31)

\* C5: the padding threshold of analyze_xilinx_header: a lone run of 31 dummy
\* bytes before a valid marker is rejected, a run of exactly 32 before a valid
\* marker at p <= 248 is accepted with strip = p - 32 and do_swap telling the
\* marker, and every accepted header has 32 dummy bytes before the stop
C5_PaddingThreshold ==
    /\ C5_Run31Rejected
    /\ C5_Run32Accepted
    /\ C5_AcceptedAfterRun

\* a run of exactly 32 dummy bytes ending the scanned range, the swap marker
\* in the last 8 bytes of the header: accepted with strip = 216
C5_Witness ==
    /\ pc = "strip"
    /\ strip = 216
    /\ do_swap
    /\ In(215) # 255
    /\ BytesAt(248, SwapMarker)

\* a lone run of 31 dummy bytes at 217..247 before a valid marker: rejected
C5_WitnessRejected ==
    /\ pc = "returned"
    /\ stderr = MsgAnalyze
    /\ strip = -1
    /\ DummyRun(217, 247)
    /\ In(216) # 255
    /\ ValidMarkerAt(248)

\* C6: analysis fails when the scanned range 0..247 holds no run of 32 dummy
\* bytes, and when the first stop of the scan is not followed by one of the
\* two markers, whatever follows later in the header
C6_AnalysisFails ==
    Analysed =>
        /\ (~(\E a \in 0..216 : DummyRun(a, a + 31)) => strip = -1)
        /\ \A p \in 32..248 :
              (FirstStopAt(p) /\ ~ValidMarkerAt(p)) => strip = -1 /\ pc = "returned"

\* a run of 40 dummy bytes not followed by a marker, then 32 dummy bytes and
\* a valid marker at 150: rejected
C6_Witness ==
    /\ pc = "returned"
    /\ stderr = MsgAnalyze
    /\ strip = -1
    /\ FirstStopAt(80)
    /\ ~ValidMarkerAt(80)
    /\ StopAt(150)
    /\ ValidMarkerAt(150)

\* the input from offset strip to its end: what the run is to keep
Kept == [k \in 1..(Len(input) - strip) |-> In(strip + k - 1)]

\* the input from offset strip up to the file offset
KeptSoFar == [k \in 1..(pos - strip) |-> In(strip + k - 1)]

\* seq with the bytes of every complete group of four reversed, the last one
\* to three bytes left as they are
SwapWordsSeq(seq) ==
    [k \in 1..Len(seq) |->
        LET first == 4 * ((k - 1) \div 4) + 1
        IN  IF first + 3 <= Len(seq) THEN seq[first + 3 - ((k - 1) % 4)] ELSE seq[k]]

\* C1: with the no-swap marker, a successful run writes exactly the input
\* bytes from offset strip to the end, in order and unchanged, however read()
\* cuts the input into chunks (and between chunks the output is the input from
\* strip up to the file offset)
C1_NoSwapCopy ==
    /\ (ret = <<0>> /\ ~do_swap) => out = Kept
    /\ (pc = "loop_read" /\ ~do_swap) => out = KeptSoFar

\* a successful no-swap run over the longest body, after an alignment read,
\* whose last chunk was a single byte
C1_Witness ==
    /\ ret = <<0>>
    /\ ~do_swap
    /\ strip % 4 # 0
    /\ Len(input) = MAXHDR + MaxBody
    /\ pos = Len(input)
    /\ datbuf[0] = In(pos - 1)
    /\ datbuf[1] = In(pos - 3)

\* C2: with the swap marker, the output of a successful run is the input from
\* offset strip with every complete 32-bit word reversed and a final one to
\* three bytes unchanged
C2_SwapOutput ==
    (ret = <<0>> /\ do_swap) => out = SwapWordsSeq(Kept)

\* the input is a valid header: the scan's first stop holds one of the markers
ValidHeader == \E p \in 32..248 : FirstStopAt(p) /\ ValidMarkerAt(p)

HeaderOnly == IF do_swap THEN SwapWordsSeq(Kept) ELSE Kept

\* xbit2bin has returned from an input of exactly MAXHDR bytes holding a
\* valid header, and no transfer failed or was cut short
C3_Case ==
    /\ pc = "returned"
    /\ Len(input) = MAXHDR
    /\ ~fault
    /\ ValidHeader

\* C3 as stated: for every such input, whatever strip is, xbit2bin returns 0
\* and the output is the header-only bytes
C3_Original ==
    C3_Case => ret = <<0>> /\ out = HeaderOnly

\* C3 amended: when strip is a multiple of 4, xbit2bin returns 0 and the
\* output is the input bytes strip..255 (word-swapped for the swap marker);
\* otherwise the alignment read finds the end of the input, xbit2bin returns
\* -1 and nothing is written
C3_HeaderOnly ==
    C3_Case =>
        IF strip % 4 = 0
        THEN ret = <<0>> /\ out = HeaderOnly
        ELSE ret = <<-1>> /\ out = <<>> /\ ~wrote /\ stderr = MsgData

\* a 256-byte input with the swap marker in its last 8 bytes: the 40 bytes
\* kept are written and xbit2bin returns 0
C3_Witness ==
    /\ C3_Case
    /\ ret = <<0>>
    /\ do_swap
    /\ strip = 216
    /\ Len(out) = 40

\* the header was read in full and analyze_xilinx_header accepted it
PassedAnalysis ==
    /\ pos >= MAXHDR
    /\ \/ pc \in {"strip", "align", "swap_hdr", "write_hdr", "loop_read", "loop_swap",
                  "loop_write", "close_in", "close_out", "return"}
       \/ (pc \in {"returned", "exit"} /\ ret # <<>> /\ stderr \notin {MsgHeader, MsgAnalyze})

\* C4: no write() happens before the header has been read in full and
\* analysed successfully; when the header read comes short or the analysis
\* fails, xbit2bin returns -1 with nothing written
C4_NoWriteBeforeAnalysis ==
    /\ (wrote \/ out # <<>>) => PassedAnalysis /\ strip >= 0
    /\ (stderr \in {MsgHeader, MsgAnalyze}) => ret = <<-1>> /\ ~wrote /\ out = <<>>
    /\ (pc = "returned" /\ (pos < MAXHDR \/ strip < 0)) => ret = <<-1>> /\ ~wrote

\* the header read returned 255 of the 256 bytes asked for: failure, no write
C4_Witness ==
    /\ pc = "exit"
    /\ stderr = MsgHeader
    /\ pos = MAXHDR - 1
    /\ ret = <<-1>>
    /\ status = <<1>>
    /\ ~wrote

\* C7 as stated: once xbit2bin has returned, the process never ends with a
\* handle that close() has not closed
C7_Original ==
    (pc = "exit" /\ ret # <<>>) => fdin = "closed" /\ fdout = "closed"

\* C7 amended: when xbit2bin returns 0, main closes both handles and returns
\* 0; when it returns -1, main calls exit(1) with both handles still open
C7_CloseOnSuccess ==
    /\ (pc = "exit" /\ ret = <<0>>) =>
          fdin = "closed" /\ fdout = "closed" /\ status = <<0>>
    /\ (pc = "exit" /\ ret = <<-1>>) =>
          fdin = "open" /\ fdout = "open" /\ status = <<1>>

\* the process has ended after a successful transcode, both handles closed
C7_Witness ==
    /\ pc = "exit"
    /\ ret = <<0>>
    /\ status = <<0>>
    /\ fdin = "closed"
    /\ fdout = "closed"
    /\ Len(out) > MAXHDR

\* C8: in the body loop with do_swap set, a chunk of n bytes with n not a
\* multiple of 4 is written with its complete words reversed and its last
\* n mod 4 bytes as they were read
C8_TrailingBytes ==
    (pc = "loop_write" /\ do_swap /\ n % 4 # 0) =>
        \A j \in 0..(n - 1) :
            datbuf[j] = IF j < 4 * (n \div 4)
                        THEN In(pos - n + 4 * (j \div 4) + 3 - (j % 4))
                        ELSE In(pos - n + j)

\* C9: an accepted strip is in 0..216; when the header is swapped and written
\* n is a multiple of 4 in 40..256; no access to hdr goes beyond its 256 bytes
\* and none to datbuf beyond the chunk buffer
C9_Bounds ==
    /\ pc \in {"strip", "align", "swap_hdr", "write_hdr", "loop_read", "loop_swap",
               "loop_write"} => strip \in 0..216
    /\ pc \in {"swap_hdr", "write_hdr"} => n % 4 = 0 /\ 40 <= n /\ n <= 256
    /\ hdrExt <= 256
    /\ datExt <= DatBufSize

\* after an alignment read filled hdr to its last byte and the header was
\* swapped, a chunk of the body has been swapped up to the end of datbuf
C9_Witness ==
    /\ pc = "loop_write"
    /\ do_swap
    /\ strip % 4 # 0
    /\ hdrExt = 256
    /\ datExt = DatBufSize

\* C10: whatever has been written starts as 32 dummy bytes followed by the
\* bytes of buswords_noswap, and once the header has been written at least
\* these 40 bytes are there
C10_Normalised ==
    LET want == Dummies(32) \o NoSwapMarker
        k == Min(40, Len(out))
    IN  /\ SubSeq(out, 1, k) = SubSeq(want, 1, k)
        /\ pc \in {"loop_read", "loop_swap", "loop_write"} => Len(out) >= 40

\* the header has been written for an input with the swap marker after a run
\* of more than 32 dummy bytes
C10_Witness ==
    /\ pc = "loop_read"
    /\ do_swap
    /\ strip > 0
    /\ In(strip - 1) = 255
    /\ Len(out) >= 40

====
